---- MODULE Spec2Model ----
(***************************************************************************)
(* Model of src/app.py: the OCR detection filter, the four prompt-chaining *)
(* stages around the completion service, and the Gradio click wiring.      *)
(*                                                                         *)
(* A Python str is a sequence of tokens: one-character strings, plus       *)
(* multi-character tokens that stand for a fixed literal of the source.    *)
(* Python None is the one-token sequence None.                             *)
(***************************************************************************)
EXTENDS Integers, Sequences, FiniteSets, TLC

\* ---------------------------------------------------------------- bounds
MaxDets == 3          \* longest OCR result sequence enumerated

\* ------------------------------------------------------- Python values
None == <<"<None>">>

\* truthiness of None / str / list as tested by `x if x else ...`, `not x`
Truthy(v) == v # None /\ v # <<>>

\* f-string formatting of a str-or-None value
Format(v) == IF v = None THEN <<"N", "o", "n", "e">> ELSE v

Whitespace == {" ", "\n", "\t"}

RECURSIVE LStrip(_)
LStrip(s) == IF s # <<>> /\ Head(s) \in Whitespace THEN LStrip(Tail(s)) ELSE s

RECURSIVE RStrip(_)
RStrip(s) ==
  IF s # <<>> /\ s[Len(s)] \in Whitespace
    THEN RStrip(SubSeq(s, 1, Len(s) - 1))
    ELSE s

\* str.strip()
Strip(s) == RStrip(LStrip(s))

\* ---------------------------------------------------------------- json
Quote == "\""
Backslash == "\\"

JsonEscapeChar(c) ==
  IF c = Quote THEN <<Backslash, Quote>>
  ELSE IF c = Backslash THEN <<Backslash, Backslash>>
  ELSE IF c = "\n" THEN <<Backslash, "n">>
  ELSE IF c = "\t" THEN <<Backslash, "t">>
  ELSE <<c>>

RECURSIVE JsonEscape(_)
JsonEscape(s) ==
  IF s = <<>> THEN <<>> ELSE JsonEscapeChar(Head(s)) \o JsonEscape(Tail(s))

Indent4 == <<" ", " ", " ", " ">>

\* json.dumps({"error": value}, indent=4)
JsonDumpsError(value) ==
  <<"{", "\n">> \o Indent4 \o <<Quote, "error", Quote, ":", " ", Quote>>
    \o JsonEscape(value) \o <<Quote, "\n", "}">>

\* ---- a reader for JSON objects whose keys and values are strings
RECURSIVE SkipWs(_, _)
SkipWs(s, i) ==
  IF i <= Len(s) /\ s[i] \in Whitespace THEN SkipWs(s, i + 1) ELSE i

\* reads the body of a string literal starting at i (after the opening quote)
RECURSIVE ReadString(_, _, _)
ReadString(s, i, acc) ==
  IF i > Len(s) THEN [ok |-> FALSE, val |-> acc, next |-> i]
  ELSE IF s[i] = Quote THEN [ok |-> TRUE, val |-> acc, next |-> i + 1]
  ELSE IF s[i] = "\n" \/ s[i] = "\t" THEN [ok |-> FALSE, val |-> acc, next |-> i]
  ELSE IF s[i] = Backslash THEN
    IF i + 1 > Len(s) THEN [ok |-> FALSE, val |-> acc, next |-> i]
    ELSE IF s[i + 1] = "n" THEN ReadString(s, i + 2, Append(acc, "\n"))
    ELSE IF s[i + 1] = "t" THEN ReadString(s, i + 2, Append(acc, "\t"))
    ELSE IF s[i + 1] \in {Quote, Backslash}
      THEN ReadString(s, i + 2, Append(acc, s[i + 1]))
    ELSE [ok |-> FALSE, val |-> acc, next |-> i]
  ELSE ReadString(s, i + 1, Append(acc, s[i]))

Invalid == [valid |-> FALSE, keys |-> <<>>, vals |-> <<>>]

\* reads `"key": "value"` pairs from i up to the closing brace
RECURSIVE ReadPairs(_, _, _, _)
ReadPairs(s, i, keys, vals) ==
  LET a == SkipWs(s, i) IN
  IF a > Len(s) \/ s[a] # Quote THEN Invalid
  ELSE
    LET k == ReadString(s, a + 1, <<>>)
        b == SkipWs(s, k.next)
    IN
    IF ~k.ok \/ b > Len(s) \/ s[b] # ":" THEN Invalid
    ELSE
      LET c == SkipWs(s, b + 1) IN
      IF c > Len(s) \/ s[c] # Quote THEN Invalid
      ELSE
        LET v == ReadString(s, c + 1, <<>>)
            d == SkipWs(s, v.next)
        IN
        IF ~v.ok \/ d > Len(s) THEN Invalid
        ELSE IF s[d] = "}" THEN
          IF SkipWs(s, d + 1) > Len(s)
            THEN [valid |-> TRUE, keys |-> Append(keys, k.val),
                  vals |-> Append(vals, v.val)]
            ELSE Invalid
        ELSE IF s[d] = ","
          THEN ReadPairs(s, d + 1, Append(keys, k.val), Append(vals, v.val))
        ELSE Invalid

\* json.loads restricted to {"k": "v", ...}
JsonLoads(s) ==
  LET a == SkipWs(s, 1) IN
  IF a > Len(s) \/ s[a] # "{" THEN Invalid ELSE ReadPairs(s, a + 1, <<>>, <<>>)

\* ------------------------------------------------------ OCR detections
Threshold == 5        \* 0.5, confidences are counted in tenths

Confidences == {3, 5, 9}
Labels == {<<"O", "K">>, <<"G", "o">>}
Boxes == {"bbox"}

Detection == [bbox : Boxes, text : Labels, conf : Confidences]

RECURSIVE SeqsUpTo(_, _)
SeqsUpTo(S, n) ==
  IF n = 0 THEN {<<>>}
  ELSE LET shorter == SeqsUpTo(S, n - 1) IN
       shorter \cup {Append(q, x) : q \in {r \in shorter : Len(r) = n - 1}, x \in S}

OcrResults == SeqsUpTo(Detection, MaxDets)

\* values a caller can pass as `screen`: None, a path string, a numpy array,
\* a PIL image (what gr.Image(type="pil") delivers), or another object that
\* is no image (a list, a number); size 0 is an empty value or a bitmap with
\* no pixels; dets is what reader.readtext returns for it when it returns
NoScreen == [type |-> "None", size |-> 0, dets |-> <<>>]

AllScreens ==
  {NoScreen}
    \cup [type : {"str", "other"}, size : {0, 1}, dets : {<<>>}]
    \cup [type : {"ndarray", "PIL"}, size : {0}, dets : {<<>>}]
    \cup [type : {"ndarray", "PIL"}, size : {1}, dets : OcrResults]

\* the conditions of line 36 and line 50
IsEmptyInput(screen) ==
  \/ screen.type = "None"
  \/ screen.type = "str"
  \/ (screen.type = "ndarray" /\ screen.size = 0)

\* the filter with the threshold test written as >= instead of >
RECURSIVE FilterDetections_AtLeast(_)
FilterDetections_AtLeast(result) ==
  IF result = <<>> THEN <<>>
  ELSE LET d == Head(result) IN
       (IF d.conf >= Threshold
          THEN <<[component |-> d.text, bounding_box |-> d.bbox]>>
          ELSE <<>>) \o FilterDetections_AtLeast(Tail(result))

\* lines 41-46: the confidence filter over the engine's result
RECURSIVE FilterDetections(_)
FilterDetections(result) ==
  IF result = <<>> THEN <<>>
  ELSE LET d == Head(result) IN
       (IF d.conf > Threshold
          THEN <<[component |-> d.text, bounding_box |-> d.bbox]>>
          ELSE <<>>) \o FilterDetections(Tail(result))

\* ocr is the engine's behaviour on this call: "ok" or "raise"
extract_ui_elements(screen, ocr) ==
  IF IsEmptyInput(screen)
    THEN [raised |-> "none", ret |-> <<>>, ocr |-> <<>>]
  ELSE IF ocr = "raise"
    THEN [raised |-> "OCRError", ret |-> <<>>, ocr |-> <<screen>>]
  ELSE [raised |-> "none", ret |-> FilterDetections(screen.dets),
        ocr |-> <<screen>>]

\* ------------------------------------------------------ prompt composing
NoUserStory == <<"No user story provided.">>
NoSummary == <<"No additional summary provided.">>
NoElements == <<"No UI elements detected from the image. Generating UI data model based on provided user story and summary.">>
DefaultPlatform == <<"W", "e", "b">>

\* repr() of the list of dicts built at line 44
ReprElement(e) ==
  <<"{", "'component'", ":", " ", "'">> \o e.component
    \o <<"'", ",", " ", "'bounding_box'", ":", " ", e.bounding_box, "}">>

RECURSIVE ReprElements(_)
ReprElements(l) ==
  IF l = <<>> THEN <<>>
  ELSE IF Len(l) = 1 THEN ReprElement(l[1])
  ELSE ReprElement(l[1]) \o <<",", " ">> \o ReprElements(Tail(l))

ReprList(l) == <<"[">> \o ReprElements(l) \o <<"]">>

\* the f-string: literal chunk i, then field i, ..., then the last chunk
RECURSIVE Render(_, _)
Render(chunks, fields) ==
  IF fields = <<>> THEN <<Head(chunks)>>
  ELSE <<Head(chunks)>> \o Head(fields) \o Render(Tail(chunks), Tail(fields))

Prompt1Chunks == <<"P1:story", "P1:summary", "P1:elements", "P1:template">>
Prompt2Chunks == <<"P2:story", "P2:summary", "P2:model", "P2:instructions">>
Prompt3Chunks == <<"P3:story", "P3:platform", "P3:technology", "P3:rest">>
Prompt4Chunks == <<"P4:cases", "P4:platform", "P4:format", "P4:platform2", "P4:rest">>

System1 == <<"You are an AI assistant trained to generate standardized UI Data Models.">>
System2 == <<"You are an AI assistant trained to generate structured Gherkin user stories.">>
System3 == <<"You are an AI assistant trained to generate structured imperative and non-functional test cases for automation.">>
System4 == <<"You are an AI assistant trained to generate structured feature files with step definitions.">>

\* --------------------------------------------------- completion service
ApiErrorPrefix == "OpenAI API error: "
UnexpectedPrefix == "Unexpected error: "
NoStripMessage == <<"'NoneType' object has no attribute 'strip'">>

Contents == {<<" ", "t", " ", "t", "\n">>}
Messages == {<<"x", Quote, Backslash, "\n">>}

\* what one openai.chat.completions.create call can do: return a response
\* with text content, return one whose content is None, or raise
Outcomes ==
  [kind : {"ok"}, text : Contents]
    \cup [kind : {"OpenAIError", "Exception"}, text : Messages]
    \cup [kind : {"no_content"}, text : {<<>>}]

Request(system, prompt) ==
  [model |-> "gpt-4",
   messages |-> <<[role |-> "system", content |-> system],
                  [role |-> "user", content |-> prompt]>>]

\* the block without its `except Exception` clause
Complete_NoCatchAll(system, prompt, outcome) ==
  [raised |-> IF outcome.kind \in {"Exception", "no_content"}
                THEN "Exception" ELSE "none",
   requests |-> <<Request(system, prompt)>>,
   ret |->
     IF outcome.kind = "ok" THEN Strip(outcome.text)
     ELSE IF outcome.kind = "OpenAIError"
       THEN JsonDumpsError(<<ApiErrorPrefix>> \o outcome.text)
     ELSE None]

\* the block with `except Exception` placed before `except openai.OpenAIError`
Complete_CatchAllFirst(system, prompt, outcome) ==
  [raised |-> "none",
   requests |-> <<Request(system, prompt)>>,
   ret |->
     IF outcome.kind = "ok" THEN Strip(outcome.text)
     ELSE IF outcome.kind = "no_content"
       THEN JsonDumpsError(<<UnexpectedPrefix>> \o NoStripMessage)
     ELSE JsonDumpsError(<<UnexpectedPrefix>> \o outcome.text)]

\* the block with the create call repeated once after a failure
Complete_Retry(system, prompt, outcome) ==
  [raised |-> "none",
   requests |->
     IF outcome.kind \in {"OpenAIError", "Exception"}
       THEN <<Request(system, prompt), Request(system, prompt)>>
       ELSE <<Request(system, prompt)>>,
   ret |->
     IF outcome.kind = "ok" THEN Strip(outcome.text)
     ELSE IF outcome.kind = "OpenAIError"
       THEN JsonDumpsError(<<ApiErrorPrefix>> \o outcome.text)
     ELSE IF outcome.kind = "no_content"
       THEN JsonDumpsError(<<UnexpectedPrefix>> \o NoStripMessage)
     ELSE JsonDumpsError(<<UnexpectedPrefix>> \o outcome.text)]

\* the try/except block of every stage (lines 99-109, 136-146, 175-185,
\* 228-238): one create call, then the three ways out
Complete(system, prompt, outcome) ==
  [raised |-> "none",
   requests |-> <<Request(system, prompt)>>,
   ret |->
     IF outcome.kind = "ok" THEN Strip(outcome.text)
     ELSE IF outcome.kind = "OpenAIError"
       THEN JsonDumpsError(<<ApiErrorPrefix>> \o outcome.text)
     ELSE IF outcome.kind = "no_content"
       THEN JsonDumpsError(<<UnexpectedPrefix>> \o NoStripMessage)
     ELSE JsonDumpsError(<<UnexpectedPrefix>> \o outcome.text)]

\* ----------------------------------------------------------- the stages
Returned(fields, ocr, c) ==
  [raised |-> c.raised, ret |-> c.ret, fields |-> fields, ocr |-> ocr,
   requests |-> c.requests]

Raised(exc, ocr) ==
  [raised |-> exc, ret |-> None, fields |-> <<>>, ocr |-> ocr,
   requests |-> <<>>]

generate_ui_data_model(user_story, summary, screen, ocr, outcome) ==
  LET d == IF IsEmptyInput(screen)
             THEN [raised |-> "none", ret |-> <<>>, ocr |-> <<>>]
             ELSE extract_ui_elements(screen, ocr)
  IN
  IF d.raised # "none" THEN Raised(d.raised, d.ocr)
  ELSE
    LET fields ==
          <<IF Truthy(user_story) THEN user_story ELSE NoUserStory,
            IF Truthy(summary) THEN summary ELSE NoSummary,
            IF d.ret = <<>> THEN NoElements ELSE ReprList(d.ret)>>
    IN Returned(fields, d.ocr,
                Complete(System1, Render(Prompt1Chunks, fields), outcome))

\* stage 2 with the summary embedded without its fallback
generate_gherkin_from_ui_NoSummaryFallback(ui_data_model, user_story, summary, outcome) ==
  LET fields ==
        <<IF Truthy(user_story) THEN user_story ELSE NoUserStory,
          Format(summary),
          Format(ui_data_model)>>
  IN Returned(fields, <<>>,
              Complete(System2, Render(Prompt2Chunks, fields), outcome))

generate_gherkin_from_ui(ui_data_model, user_story, summary, outcome) ==
  LET fields ==
        <<IF Truthy(user_story) THEN user_story ELSE NoUserStory,
          IF Truthy(summary) THEN summary ELSE NoSummary,
          Format(ui_data_model)>>
  IN Returned(fields, <<>>,
              Complete(System2, Render(Prompt2Chunks, fields), outcome))

generate_test_cases(gherkin_story, platform, technology, outcome) ==
  LET fields == <<Format(gherkin_story), Format(platform), Format(technology)>>
  IN Returned(fields, <<>>,
              Complete(System3, Render(Prompt3Chunks, fields), outcome))

\* stage 4 without lines 189-190
generate_feature_file_NoDefault(test_cases, platform, step_definition_format, outcome) ==
  LET fields == <<Format(test_cases), Format(platform),
                  Format(step_definition_format), Format(platform)>>
  IN Returned(fields, <<>>,
              Complete(System4, Render(Prompt4Chunks, fields), outcome))

generate_feature_file(test_cases, platform, step_definition_format, outcome) ==
  LET p == IF Truthy(platform) THEN platform ELSE DefaultPlatform
      fields == <<Format(test_cases), Format(p),
                  Format(step_definition_format), Format(p)>>
  IN Returned(fields, <<>>,
              Complete(System4, Render(Prompt4Chunks, fields), outcome))

\* --------------------------------------------------------- Gradio wiring
Buttons ==
  {"generate_ui_btn", "generate_gherkin_btn", "generate_test_cases_btn",
   "generate_feature_file_btn"}

OutputBoxes ==
  {"ui_data_model_output", "gherkin_output", "test_case_output",
   "feature_file_output"}

\* the wiring with the test-case click writing to the Gherkin textbox
ClickWiring_WrongOutput ==
  [generate_ui_btn |->
     [fn |-> "generate_ui_data_model",
      inputs |-> <<"user_story_input", "summary_input", "screen_input">>,
      outputs |-> "ui_data_model_output"],
   generate_gherkin_btn |->
     [fn |-> "generate_gherkin_from_ui",
      inputs |-> <<"ui_data_model_output">>,
      outputs |-> "gherkin_output"],
   generate_test_cases_btn |->
     [fn |-> "generate_test_cases",
      inputs |-> <<"gherkin_output", "platform_input", "technology_input">>,
      outputs |-> "gherkin_output"],
   generate_feature_file_btn |->
     [fn |-> "generate_feature_file",
      inputs |-> <<"test_case_output", "platform_input", "step_definition_input">>,
      outputs |-> "feature_file_output"]]

\* lines 269-272: fn, inputs= and outputs= of each click
ClickWiring ==
  [generate_ui_btn |->
     [fn |-> "generate_ui_data_model",
      inputs |-> <<"user_story_input", "summary_input", "screen_input">>,
      outputs |-> "ui_data_model_output"],
   generate_gherkin_btn |->
     [fn |-> "generate_gherkin_from_ui",
      inputs |-> <<"ui_data_model_output">>,
      outputs |-> "gherkin_output"],
   generate_test_cases_btn |->
     [fn |-> "generate_test_cases",
      inputs |-> <<"gherkin_output", "platform_input", "technology_input">>,
      outputs |-> "test_case_output"],
   generate_feature_file_btn |->
     [fn |-> "generate_feature_file",
      inputs |-> <<"test_case_output", "platform_input", "step_definition_input">>,
      outputs |-> "feature_file_output"]]

\* positional parameters of each def: required, and accepted at most
Params ==
  [generate_ui_data_model |-> [min |-> 2, max |-> 3],
   generate_gherkin_from_ui |-> [min |-> 3, max |-> 3],
   generate_test_cases |-> [min |-> 3, max |-> 3],
   generate_feature_file |-> [min |-> 3, max |-> 3]]

\* fn(*args): binding the arguments, then the body
Call(fn, args, ocr, outcome) ==
  IF Len(args) < Params[fn].min \/ Len(args) > Params[fn].max
    THEN Raised("TypeError", <<>>)
  ELSE IF fn = "generate_ui_data_model"
    THEN generate_ui_data_model(args[1], args[2],
           IF Len(args) >= 3 THEN args[3] ELSE NoScreen, ocr, outcome)
  ELSE IF fn = "generate_gherkin_from_ui"
    THEN generate_gherkin_from_ui(args[1], args[2], args[3], outcome)
  ELSE IF fn = "generate_test_cases"
    THEN generate_test_cases(args[1], args[2], args[3], outcome)
  ELSE generate_feature_file(args[1], args[2], args[3], outcome)

\* what the user can have put into each input widget before a click
WidgetValues ==
  [user_story_input |-> {<<>>, <<"u">>},
   summary_input |-> {<<>>, <<"m">>},
   screen_input |->
     {NoScreen,
      [type |-> "PIL", size |-> 1,
       dets |-> <<[bbox |-> "bbox", text |-> <<"O", "K">>, conf |-> 9],
                  [bbox |-> "bbox", text |-> <<"G", "o">>, conf |-> 3]>>]},
   platform_input |-> {None, <<"M", "o", "b", "i", "l", "e">>},
   technology_input |-> {None, <<"Selenium">>},
   step_definition_input |-> {None, <<"Python (Behave)">>}]

InputWidgets == DOMAIN WidgetValues

Range(f) == {f[i] : i \in DOMAIN f}

\* ------------------------------------------------------------------ state
VARIABLES
  value,   \* text held by each of the four output textboxes
  last     \* what the most recent handler or call did

vars == <<value, last>>

Idle ==
  [op |-> "none", fn |-> "none", nargs |-> 0, inputs |-> <<>>, args |-> <<>>,
   outcome |-> [kind |-> "none", text |-> <<>>],
   raised |-> "none", ret |-> None, elements |-> <<>>, fields |-> <<>>,
   ocr |-> <<>>, requests |-> <<>>]

Ran(op, fn, inputs, args, outcome, run) ==
  [op |-> op, fn |-> fn, nargs |-> Len(args), inputs |-> inputs, args |-> args,
   outcome |-> outcome,
   raised |-> run.raised, ret |-> run.ret, elements |-> <<>>,
   fields |-> run.fields, ocr |-> run.ocr, requests |-> run.requests]

Init ==
  /\ value = [c \in OutputBoxes |-> <<>>]
  /\ last = Idle

\* one click: Gradio reads the components named by inputs=, calls fn with
\* them, and writes the returned text to the outputs= component; a call that
\* raises leaves the component as it was
Choices(w, c) ==
  IF c \in Range(w.inputs)
    THEN WidgetValues[c]
    ELSE {CHOOSE v \in WidgetValues[c] : TRUE}

Click(b) ==
  LET w == ClickWiring[b] IN
  \E us \in Choices(w, "user_story_input"), sm \in Choices(w, "summary_input"),
     sc \in Choices(w, "screen_input"), pf \in Choices(w, "platform_input"),
     te \in Choices(w, "technology_input"),
     sd \in Choices(w, "step_definition_input"),
     ocr \in (IF "screen_input" \in Range(w.inputs)
                THEN {"ok", "raise"} ELSE {"ok"}),
     outcome \in Outcomes :
    LET widgets == [user_story_input |-> us, summary_input |-> sm,
                    screen_input |-> sc, platform_input |-> pf,
                    technology_input |-> te, step_definition_input |-> sd]
        args == [i \in 1..Len(w.inputs) |->
                   IF w.inputs[i] \in OutputBoxes
                     THEN value[w.inputs[i]]
                     ELSE widgets[w.inputs[i]]]
        run == Call(w.fn, args, ocr, outcome)
    IN /\ value' = IF run.raised = "none"
                     THEN [value EXCEPT ![w.outputs] = run.ret]
                     ELSE value
       /\ last' = Ran(b, w.fn, w.inputs, args, outcome, run)

ClickGenerateUi == Click("generate_ui_btn")
ClickGenerateGherkin == Click("generate_gherkin_btn")
ClickGenerateTestCases == Click("generate_test_cases_btn")
ClickGenerateFeatureFile == Click("generate_feature_file_btn")

Next ==
  \/ ClickGenerateUi
  \/ ClickGenerateGherkin
  \/ ClickGenerateTestCases
  \/ ClickGenerateFeatureFile

Spec == Init /\ [][Next]_vars

\* ------------------------------------------- the functions called directly
\* Each behaviour of SpecCall is one call: Init draws the function and its
\* arguments, the action runs it against one behaviour of the OCR engine
\* and of the completion service.
OptTexts == {None, <<>>, <<"u">>}

\* screens handed to generate_ui_data_model in a direct call
StageScreens ==
  {sc \in AllScreens : Len(sc.dets) <= 1} \cup WidgetValues.screen_input

\* texts a stage can have returned, or nothing
PriorOutputs ==
  {None, <<>>} \cup {Complete(System1, <<>>, o).ret : o \in Outcomes}

OptPlatforms ==
  {None, <<>>, <<"W", "e", "b">>, <<"M", "o", "b", "i", "l", "e">>}

OptTechnologies == {None, <<>>, <<"Selenium">>}
OptStepFormats == {None, <<>>, <<"Python (Behave)">>}

Pending(fn, args) ==
  [Idle EXCEPT !.op = "pending", !.fn = fn, !.args = args, !.nargs = Len(args)]

InitCall ==
  /\ value = [c \in OutputBoxes |-> <<>>]
  /\ \/ \E sc \in AllScreens : last = Pending("extract_ui_elements", <<sc>>)
     \/ \E us \in OptTexts, sm \in OptTexts, sc \in StageScreens :
          last = Pending("generate_ui_data_model", <<us, sm, sc>>)
     \/ \E us \in OptTexts, sm \in OptTexts :
          last = Pending("generate_ui_data_model", <<us, sm>>)
     \/ \E m \in PriorOutputs, us \in OptTexts, sm \in OptTexts :
          last = Pending("generate_gherkin_from_ui", <<m, us, sm>>)
     \/ \E g \in PriorOutputs, pf \in OptPlatforms, te \in OptTechnologies :
          last = Pending("generate_test_cases", <<g, pf, te>>)
     \/ \E t \in PriorOutputs, pf \in OptPlatforms, sd \in OptStepFormats :
          last = Pending("generate_feature_file", <<t, pf, sd>>)

CallExtractUiElements ==
  /\ last.op = "pending" /\ last.fn = "extract_ui_elements"
  /\ \E ocr \in {"ok", "raise"} :
       LET r == extract_ui_elements(last.args[1], ocr) IN
       last' = [last EXCEPT !.op = "call", !.raised = r.raised,
                            !.elements = r.ret, !.ocr = r.ocr]
  /\ UNCHANGED value

CallStage(fn) ==
  /\ last.op = "pending" /\ last.fn = fn
  /\ \E ocr \in {"ok", "raise"}, outcome \in Outcomes :
       last' = Ran("call", fn, <<>>, last.args, outcome,
                   Call(fn, last.args, ocr, outcome))
  /\ UNCHANGED value

CallGenerateUiDataModel == CallStage("generate_ui_data_model")
CallGenerateGherkin == CallStage("generate_gherkin_from_ui")
CallGenerateTestCases == CallStage("generate_test_cases")
CallGenerateFeatureFile == CallStage("generate_feature_file")

NextCall ==
  \/ CallExtractUiElements
  \/ CallGenerateUiDataModel
  \/ CallGenerateGherkin
  \/ CallGenerateTestCases
  \/ CallGenerateFeatureFile

SpecCall == InitCall /\ [][NextCall]_vars

\* ================================================================ claims
StageFns ==
  {"generate_ui_data_model", "generate_gherkin_from_ui", "generate_test_cases",
   "generate_feature_file"}

\* a stage has been invoked, by a click or directly, and the invocation ended
StageRan == last.fn \in StageFns /\ last.op \in Buttons \cup {"call"}

ExtractRan == last.fn = "extract_ui_elements" /\ last.op = "call"

IsErrorJson(t) ==
  LET j == JsonLoads(t) IN j.valid /\ j.keys = <<<<"error">>>>

\* t occurs in s as a contiguous run of tokens
Contains(s, t) ==
  \E i \in 1..(Len(s) - Len(t) + 1) : SubSeq(s, i, i + Len(t) - 1) = t

Prompt(r) == r.messages[2].content

\* ---------------------------------------------------------------- C4
KeptIndexes(dets) == {i \in 1..Len(dets) : dets[i].conf > Threshold}

NthKept(dets, k) ==
  CHOOSE i \in KeptIndexes(dets) :
    Cardinality({j \in KeptIndexes(dets) : j < i}) = k - 1

\* C4: when extract_ui_elements runs the engine and the engine returns, the
\* result is exactly the detections with confidence strictly above 0.5, in
\* the engine's order, repeated labels kept, each mapped to its text and
\* bounding box; with no detection above 0.5 it is the empty sequence.
C4_FilterIsStrictSubsequence ==
  (ExtractRan /\ last.raised = "none" /\ last.ocr # <<>>) =>
    LET dets == last.args[1].dets IN
    /\ Len(last.elements) = Cardinality(KeptIndexes(dets))
    /\ \A k \in 1..Len(last.elements) :
         /\ last.elements[k].component = dets[NthKept(dets, k)].text
         /\ last.elements[k].bounding_box = dets[NthKept(dets, k)].bbox

\* three detections 0.9, 0.5, 0.9 with the same label: the middle one is
\* dropped and the label is kept twice
C4_Witness ==
  /\ ExtractRan /\ last.raised = "none" /\ last.ocr # <<>>
  /\ Len(last.args[1].dets) = 3
  /\ last.args[1].dets[1].conf = 9
  /\ last.args[1].dets[2].conf = 5
  /\ last.args[1].dets[3].conf = 9
  /\ Len(last.elements) = 2
  /\ last.elements[1].component = last.elements[2].component

\* ---------------------------------------------------------------- C5
\* None, a value that is no image, or a bitmap without pixels
IsInvalidImage(sc) == sc.type \in {"None", "str", "other"} \/ sc.size = 0

ScreenArg ==
  IF last.fn = "extract_ui_elements" THEN last.args[1]
  ELSE IF last.nargs >= 3 THEN last.args[3] ELSE NoScreen

\* C5: detection, called directly or through generate_ui_data_model, never
\* runs reader.readtext when the image is None, empty, or not an image.
C5_NoOcrOnInvalidImage ==
  ((ExtractRan \/ (StageRan /\ last.fn = "generate_ui_data_model"))
     /\ last.raised # "TypeError" /\ IsInvalidImage(ScreenArg))
    => last.ocr = <<>>

\* ---------------------------------------------------------------- C1
\* C1 as stated: every invocation of a stage ends by returning text, no
\* fault raised while it runs reaches the caller.
C1_NoFaultEscapes ==
  (StageRan /\ last.op = "call") => (last.raised = "none" /\ last.ret # None)

\* C1 as amended: whatever the completion call does, the stage returns text;
\* the one fault that leaves a stage is an error of the OCR engine inside
\* generate_ui_data_model, raised before any request is sent.
C1_OnlyOcrFaultEscapes ==
  (StageRan /\ last.op = "call") =>
    IF last.raised = "none"
      THEN last.ret # None /\ Len(last.requests) = 1
      ELSE /\ last.fn = "generate_ui_data_model"
           /\ last.raised = "OCRError"
           /\ last.ocr # <<>>
           /\ last.requests = <<>>

\* the completion call raised something that is no OpenAIError, and the stage
\* still returned text
C1_Witness ==
  /\ StageRan /\ last.op = "call"
  /\ last.outcome.kind = "Exception"
  /\ last.raised = "none"
  /\ IsErrorJson(last.ret)

\* ---------------------------------------------------------------- C2
AllWhitespace(t) == \A i \in 1..Len(t) : t[i] \in Whitespace

\* r is t without its leading and trailing whitespace
IsStripOf(r, t) ==
  /\ \E i \in 0..Len(t), j \in 0..Len(t) :
       /\ i + Len(r) + j = Len(t)
       /\ AllWhitespace(SubSeq(t, 1, i))
       /\ SubSeq(t, i + 1, i + Len(r)) = r
       /\ AllWhitespace(SubSeq(t, i + Len(r) + 1, Len(t)))
  /\ r # <<>> => (r[1] \notin Whitespace /\ r[Len(r)] \notin Whitespace)

\* t is a JSON object with the single key error whose value is prefix
\* followed by message
IsErrorObject(t, prefix, message) ==
  LET j == JsonLoads(t) IN
  /\ j.valid
  /\ j.keys = <<<<"error">>>>
  /\ j.vals[1] = <<prefix>> \o message

\* C2: in every stage, an OpenAIError from the completion call gives the
\* one-key error object starting "OpenAI API error: ", any other exception
\* the one starting "Unexpected error: ", and a completion gives its content
\* stripped and not wrapped in JSON.
C2_ReturnShapes ==
  (StageRan /\ last.raised = "none") =>
    /\ last.outcome.kind = "OpenAIError" =>
         IsErrorObject(last.ret, ApiErrorPrefix, last.outcome.text)
    /\ last.outcome.kind = "Exception" =>
         IsErrorObject(last.ret, UnexpectedPrefix, last.outcome.text)
    /\ last.outcome.kind = "ok" =>
         IsStripOf(last.ret, last.outcome.text) /\ ~JsonLoads(last.ret).valid

\* a service error whose message has a quote, a backslash and a newline
C2_Witness ==
  /\ StageRan /\ last.raised = "none"
  /\ last.fn = "generate_gherkin_from_ui"
  /\ last.outcome.kind = "OpenAIError"
  /\ Quote \in Range(last.outcome.text)
  /\ IsErrorJson(last.ret)

\* ---------------------------------------------------------------- C3
\* inputs of each stage in the stage table
StageInputs ==
  [generate_ui_btn |->
     <<"user_story_input", "summary_input", "screen_input">>,
   generate_gherkin_btn |->
     <<"ui_data_model_output", "user_story_input", "summary_input">>,
   generate_test_cases_btn |->
     <<"gherkin_output", "platform_input", "technology_input">>,
   generate_feature_file_btn |->
     <<"test_case_output", "platform_input", "step_definition_input">>]

\* C3: every click hands its stage all the inputs the stage table lists, so
\* every required parameter is bound.
C3_ClickSuppliesAllInputs ==
  last.op \in Buttons =>
    /\ last.inputs = StageInputs[last.op]
    /\ last.nargs >= Params[last.fn].min
    /\ last.raised # "TypeError"

\* ---------------------------------------------------------------- C6
Unset == {None, <<>>}

\* C6 as stated: no field of a composed prompt is empty or an unset value
C6_NoEmptyField ==
  (StageRan /\ last.raised = "none") =>
    \A i \in 1..Len(last.fields) :
      last.fields[i] # <<>> /\ last.fields[i] # Format(None)

OrElse(v, fallback) == IF v \in Unset THEN fallback ELSE v

AsGiven(v) == IF v = None THEN <<"N", "o", "n", "e">> ELSE v

ChunksOf(fn) ==
  IF fn = "generate_ui_data_model" THEN Prompt1Chunks
  ELSE IF fn = "generate_gherkin_from_ui" THEN Prompt2Chunks
  ELSE IF fn = "generate_test_cases" THEN Prompt3Chunks
  ELSE Prompt4Chunks

\* C6 as amended: the fields with a fallback are user story and summary
\* (stages 1 and 2), detected elements (stage 1) and platform (stage 4); a
\* prior stage's output, the platform and technology of stage 3 and the step
\* format of stage 4 are embedded as given.
C6_FallbackFields ==
  (StageRan /\ last.raised = "none") =>
    LET a == last.args
        f == last.fields
    IN
    /\ last.fn = "generate_ui_data_model" =>
         /\ f[1] = OrElse(a[1], NoUserStory)
         /\ f[2] = OrElse(a[2], NoSummary)
         /\ f[3] # <<>>
         /\ (last.ocr = <<>> \/ KeptIndexes(ScreenArg.dets) = {})
              <=> f[3] = NoElements
    /\ last.fn = "generate_gherkin_from_ui" =>
         /\ f[1] = OrElse(a[2], NoUserStory)
         /\ f[2] = OrElse(a[3], NoSummary)
         /\ f[3] = AsGiven(a[1])
    /\ last.fn = "generate_test_cases" =>
         f = <<AsGiven(a[1]), AsGiven(a[2]), AsGiven(a[3])>>
    /\ last.fn = "generate_feature_file" =>
         /\ f[1] = AsGiven(a[1])
         /\ f[2] = OrElse(a[2], DefaultPlatform)
         /\ f[3] = AsGiven(a[3])
         /\ f[4] = f[2]
    /\ Prompt(last.requests[1]) = Render(ChunksOf(last.fn), f)

\* stage 2 with an empty summary and no user story, and an empty model
C6_Witness ==
  /\ StageRan /\ last.raised = "none"
  /\ last.fn = "generate_gherkin_from_ui"
  /\ last.args = <<<<>>, None, <<>>>>
  /\ last.fields = <<NoUserStory, NoSummary, <<>>>>

\* ---------------------------------------------------------------- C7
Predecessor ==
  [generate_gherkin_btn |-> "ui_data_model_output",
   generate_test_cases_btn |-> "gherkin_output",
   generate_feature_file_btn |-> "test_case_output"]

\* C7: when the stored output of the preceding stage is an error object, a
\* click on the next stage still sends one request whose prompt embeds that
\* error text verbatim.
C7_NoShortCircuit ==
  [][\A b \in DOMAIN Predecessor :
       (last'.op = b /\ IsErrorJson(value[Predecessor[b]])) =>
         /\ Len(last'.requests) = 1
         /\ Contains(Prompt(last'.requests[1]), value[Predecessor[b]])]_vars

\* ---------------------------------------------------------------- C8
\* C8: generate_feature_file puts "Web" into both platform slots of its
\* prompt when the platform is None or empty, and the given platform
\* otherwise, whatever the caller passed.
C8_PlatformDefault ==
  (StageRan /\ last.fn = "generate_feature_file" /\ last.raised = "none") =>
    LET p == IF last.args[2] = None \/ last.args[2] = <<>>
               THEN <<"W", "e", "b">> ELSE last.args[2]
        prompt == Prompt(last.requests[1])
    IN
    /\ Contains(prompt, <<"P4:platform">> \o p \o <<"P4:format">>)
    /\ Contains(prompt, <<"P4:platform2">> \o p \o <<"P4:rest">>)

C8_Witness ==
  /\ StageRan /\ last.op = "call" /\ last.fn = "generate_feature_file"
  /\ last.args[2] = None
  /\ Contains(Prompt(last.requests[1]),
              <<"P4:platform2", "W", "e", "b", "P4:rest">>)

\* ---------------------------------------------------------------- C9
\* the textbox each stage owns
OwnOutput ==
  [generate_ui_btn |-> "ui_data_model_output",
   generate_gherkin_btn |-> "gherkin_output",
   generate_test_cases_btn |-> "test_case_output",
   generate_feature_file_btn |-> "feature_file_output"]

\* C9: a click changes no stored output but that of its own stage, in any
\* order of clicks, and every click is possible in every reachable state.
C9_OnlyOwnOutputWritten ==
  /\ [](\A b \in Buttons : ENABLED Click(b))
  /\ [][\A c \in OutputBoxes :
          value'[c] # value[c] =>
            (last'.op \in Buttons /\ c = OwnOutput[last'.op])]_vars

\* stage 1 has just been re-run while stages 3 and 4 hold earlier output
C9_Witness ==
  /\ last.op = "generate_ui_btn" /\ last.raised = "none"
  /\ value["ui_data_model_output"] # <<>>
  /\ value["test_case_output"] # <<>>
  /\ value["feature_file_output"] # <<>>

\* --------------------------------------------------------------- C10
\* C10: an invocation that gets as far as its completion call sends exactly
\* one request, also when the request fails, and one that does not sends
\* none; a request is one system message, then one user message, model gpt-4.
C10_OneRequestPerInvocation ==
  StageRan =>
    /\ last.raised = "none" => Len(last.requests) = 1
    /\ last.raised # "none" => last.requests = <<>>
    /\ \A i \in 1..Len(last.requests) :
         /\ last.requests[i].model = "gpt-4"
         /\ Len(last.requests[i].messages) = 2
         /\ last.requests[i].messages[1].role = "system"
         /\ last.requests[i].messages[2].role = "user"
         /\ last.requests[i].messages[2].content =
              Render(ChunksOf(last.fn), last.fields)

\* a click whose request failed: one request, and the error text is stored
C10_Witness ==
  /\ last.op = "generate_feature_file_btn"
  /\ last.outcome.kind = "OpenAIError"
  /\ Len(last.requests) = 1
  /\ IsErrorJson(value["feature_file_output"])

====
